---- MODULE Spec2Model ----
(***************************************************************************)
(* Sitemap monitor: snapshot store, diff engine, scheduler pass and        *)
(* notification fan-out.                                                   *)
(*                                                                         *)
(* The scheduler (apps/email_bot.py scheduled_task), the fan-out           *)
(* (services/rss/notifier.py NotificationManager) and the command surface  *)
(* (services/rss/commands.py) are translated from their code.  RSSManager  *)
(* (services/rss/manager.py: registry, snapshot store, diff) is modelled   *)
(* from the written specification, sections 4.1 - 4.5.                      *)
(***************************************************************************)
EXTENDS Integers, Sequences, FiniteSets, TLC

VARIABLES
    feeds,      \* Feed Registry: ordered sequence of feed URLs
    store,      \* Snapshot Store: domain -> [last, cur, prev, arch]
    today,      \* current calendar day
    hist,       \* history: domain -> [n: commits of the current day, docs: the last two committed]
    notifiers,  \* NotificationManager.notifiers, in registration order
    sched,      \* scheduled_task: position and locals of the coroutine
    bc,         \* the send_to_all call of the scheduler: arguments, position, call log
    txn,        \* commit in flight inside a (synchronous) add_feed call
    cmd,        \* rss_command "add": position and locals of the handler
    summary,    \* last keyword summary handed to send_keywords_summary by the scheduler
    cmp,        \* force_send_keywords_summary: last stored pair compared and its result
    tg,         \* TelegramNotifier.send_update_notification: one call, message by message
    dest,       \* one call of a channel operation: override, configured default, addressee
    news,       \* force_send_keywords_summary (/news): position, collected URLs, what was sent
    mail        \* send_email: one call, its SMTP connection and its result

vars == <<feeds, store, today, hist, notifiers, sched, bc, txn, cmd, summary, cmp, tg,
          dest, news, mail>>

----------------------------------------------------------------------------
(* Bounds *)

MaxDay == 2         \* calendar days explored
MaxDocLen == 3      \* longest sitemap document of the diff specification
MaxSumLen == 3      \* longest URL list of the summary specification
MaxBatch == 2       \* longest new-URL batch of the Telegram specification

----------------------------------------------------------------------------
(* Values *)

None == <<>>
Some(x) == <<x>>
IsSome(o) == Len(o) = 1
Get(o) == o[1]

Url(n, p) == [netloc |-> n, path |-> p]

\* page URLs listed by sitemap documents
U1 == Url("a.com", <<"foo">>)
U2 == Url("a.com", <<"bar">>)
U3 == Url("b.com", <<"foo">>)
PageUrls == {U1, U2, U3}

\* feed (sitemap) URLs
FA == Url("a.com", <<"sitemap.xml">>)
FA2 == Url("a.com", <<"news", "sitemap.xml">>)
FB == Url("b.com", <<"sitemap.xml">>)
FeedUrls == {FA, FA2, FB}
\* the URLs users give to /rss add and /rss del
CmdUrls == {FA2}

\* urlparse(url).netloc
Domain(url) == url.netloc
Domains == {Domain(f) : f \in FeedUrls}

\* a sitemap document: well-formed with its <loc> entries in document order, or not XML
Doc(locs) == [ok |-> TRUE, locs |-> locs]
BadDoc == [ok |-> FALSE, locs |-> <<>>]

\* documents a fetch of a feed may return
FetchDocs(url) ==
    IF Domain(url) = "a.com"
    THEN {Doc(<<U1, U2, U1>>), Doc(<<U2>>), BadDoc}
    ELSE {Doc(<<U3>>), BadDoc}

\* the marker strings the callers match in error_msg
MsgAlready == "AlreadyUpdatedToday"
MsgExisting == "ExistingFeedUpdated"

Range(s) == {s[i] : i \in 1..Len(s)}

\* the last two elements of a sequence
LastTwo(s) == IF Len(s) <= 2 THEN s ELSE SubSeq(s, Len(s) - 1, Len(s))

----------------------------------------------------------------------------
(* URL Set Extractor and Diff Engine *)

RECURSIVE Dedup(_)
\* keep the first occurrence of every element, in order
Dedup(s) ==
    IF s = <<>> THEN <<>>
    ELSE LET init == Dedup(SubSeq(s, 1, Len(s) - 1))
             x == s[Len(s)]
         IN  IF x \in Range(init) THEN init ELSE Append(init, x)

\* extract(document) -> URL set, kept in document order; unparseable -> empty
extract(doc) == IF doc.ok THEN Dedup(doc.locs) ELSE <<>>

\* compare_sitemaps(new_content, old_content): URLs of new absent from old
compare_sitemaps(new_content, old_content) ==
    LET old_urls == Range(extract(old_content))
    IN  SelectSeq(extract(new_content), LAMBDA u : u \notin old_urls)

\* a faulty variant: the two stored files are passed in the wrong order
compare_stored_swapped(current_content, latest_content) ==
    compare_sitemaps(latest_content, current_content)

\* force_send_keywords_summary, line 278: sitemap-current.xml is the new document,
\* sitemap-latest.xml the old one
compare_stored(current_content, latest_content) ==
    compare_sitemaps(current_content, latest_content)

----------------------------------------------------------------------------
(* Feed Registry *)

\* a faulty variant: add appends without looking at the list
registry_add_always(fs, url) == Append(fs, url)

\* add(url): no-op when already present
registry_add(fs, url) == IF url \in Range(fs) THEN fs ELSE Append(fs, url)

\* remove(url): removes the entry; NotFound leaves the list as it is
registry_remove(fs, url) == SelectSeq(fs, LAMBDA f : f # url)

\* remove_feed(url) -> (success, error_msg)
remove_feed(fs, url) ==
    IF url \in Range(fs)
    THEN [success |-> TRUE, error_msg |-> "", feeds |-> registry_remove(fs, url)]
    ELSE [success |-> FALSE, error_msg |-> "NotFound", feeds |-> fs]

----------------------------------------------------------------------------
(* Snapshot Store *)

NoSnapshot == [last |-> 0, cur |-> None, prev |-> None, arch |-> {}]

load_current(st, d) == st[d].cur
load_previous(st, d) == st[d].prev

\* a faulty variant: the last-update date is never looked at
has_updated_never(st, d, day) == FALSE

\* has_updated_today(domain)
has_updated_today(st, d, day) == st[d].last = day

\* the dated archive handle (the path of sitemap-<date>.xml of the domain)
DatedFile(d, day) == Some([dom |-> d, day |-> day])

\* dated_file.exists()
FileExists(st, f) == IsSome(f) /\ Get(f).day \in st[Get(f).dom].arch

\* dated_file.unlink()
Unlink(st, f) == [st EXCEPT ![Get(f).dom].arch = @ \ {Get(f).day}]

\* a faulty variant: the old current snapshot is not moved to previous
rotate_keeps_previous(s, c, day) ==
    [last |-> day, cur |-> Some(c), prev |-> s.prev, arch |-> s.arch \cup {day}]

\* the rotation, published as one metadata commit:
\* current -> previous, new content -> current, dated archive, last-update date
rotate(s, c, day) ==
    [last |-> day, cur |-> Some(c), prev |-> s.cur, arch |-> s.arch \cup {day}]

\* a faulty variant: commit without the once-a-day guard
commit_unguarded(st, d, c, day) ==
    [ok |-> TRUE, store |-> [st EXCEPT ![d] = rotate(@, c, day)], file |-> DatedFile(d, day)]

\* commit(domain, new_content) -> dated archive handle, or AlreadyUpdatedToday
commit(st, d, c, day) ==
    IF has_updated_today(st, d, day)
    THEN [ok |-> FALSE, store |-> st, file |-> None]
    ELSE [ok |-> TRUE, store |-> [st EXCEPT ![d] = rotate(@, c, day)],
          file |-> DatedFile(d, day)]

----------------------------------------------------------------------------
(* Sitemap Monitor: add_feed(url) -> (success, error_msg, dated_file, new_urls) *)

Res(s, m, f, n) == [success |-> s, error_msg |-> m, dated_file |-> f, new_urls |-> n,
                    raised |-> FALSE]
\* the call did not return: an exception left add_feed
Raised == [success |-> FALSE, error_msg |-> "", dated_file |-> None, new_urls |-> <<>>,
           raised |-> TRUE]

\* what a fetch returns: a failure, or a document
FetchResults(url) ==
    {[ok |-> FALSE, doc |-> BadDoc]} \cup {[ok |-> TRUE, doc |-> d] : d \in FetchDocs(url)}
\* what the storage does to the commit: works, reports an error, or throws
StorageOutcomes == {"ok", "error", "raise"}

\* steps 1 - 4 of the check and the staging step of the commit
\* (stage |-> TRUE: the new content is staged and the commit is ready to publish)
monitor_check(st, day, url, fr, so) ==
    LET d == Domain(url)
        base == IF IsSome(load_current(st, d)) THEN Get(load_current(st, d)) ELSE Doc(<<>>)
    IN  IF ~fr.ok THEN [stage |-> FALSE, res |-> Res(FALSE, "FetchError", None, <<>>)]
        ELSE IF ~fr.doc.ok THEN [stage |-> FALSE, res |-> Res(FALSE, "ParseError", None, <<>>)]
        ELSE IF has_updated_today(st, d, day)
             THEN [stage |-> FALSE, res |-> Res(FALSE, MsgAlready, None, <<>>)]
        ELSE IF so = "raise" THEN [stage |-> FALSE, res |-> Raised]
        ELSE IF so = "error"
             THEN [stage |-> FALSE, res |-> Res(FALSE, "StorageError(stage)", None, <<>>)]
        ELSE [stage |-> TRUE,
              res |-> Res(TRUE, "", None, compare_sitemaps(fr.doc, base))]

\* a faulty variant: a storage error at the publishing step leaves previous rotated
monitor_publish_partial(st, fs, day, t, so) ==
    LET d == Domain(t.url)
        r == commit(st, d, t.doc, day)
    IN  IF so = "error"
        THEN [store |-> [st EXCEPT ![d].prev = st[d].cur], feeds |-> fs, committed |-> FALSE,
              res |-> Res(FALSE, "StorageError(publish)", None, <<>>)]
        ELSE IF ~r.ok
        THEN [store |-> st, feeds |-> fs, committed |-> FALSE,
              res |-> Res(FALSE, MsgAlready, None, <<>>)]
        ELSE [store |-> r.store, feeds |-> IF t.register THEN registry_add(fs, t.url) ELSE fs,
              committed |-> TRUE,
              res |-> Res(TRUE, IF t.url \in Range(fs) THEN MsgExisting ELSE "",
                          r.file, t.new_urls)]

\* the commit of a staged check: rotation, registry entry, result of add_feed;
\* a storage error at the publishing step leaves everything as it was
monitor_publish(st, fs, day, t, so) ==
    LET r == commit(st, Domain(t.url), t.doc, day)
    IN  IF so = "error"
        THEN [store |-> st, feeds |-> fs, committed |-> FALSE,
              res |-> Res(FALSE, "StorageError(publish)", None, <<>>)]
        ELSE IF ~r.ok
        THEN [store |-> st, feeds |-> fs, committed |-> FALSE,
              res |-> Res(FALSE, MsgAlready, None, <<>>)]
        ELSE [store |-> r.store, feeds |-> IF t.register THEN registry_add(fs, t.url) ELSE fs,
              committed |-> TRUE,
              res |-> Res(TRUE, IF t.url \in Range(fs) THEN MsgExisting ELSE "",
                          r.file, t.new_urls)]

----------------------------------------------------------------------------
(* Notification fan-out: NotificationManager.send_to_all *)

\* what one channel's send_update_notification does: delivers, fails inside the
\* channel (caught and logged there), or raises to its caller
ChannelOutcomes == {"delivered", "failed", "raise"}

NoBroadcast == [active |-> FALSE, url |-> FA, new_urls |-> <<>>, dated_file |-> None,
                k |-> 1, calls |-> <<>>]

\* send_to_all("send_update_notification", url=, new_urls=, dated_file=)
start_broadcast(url, new_urls, dated_file) ==
    [active |-> TRUE, url |-> url, new_urls |-> new_urls, dated_file |-> dated_file,
     k |-> 1, calls |-> <<>>]

\* getattr(notifier, method)(*args, **kwargs): the arguments every channel is called with
call_args(b) == [url |-> b.url, new_urls |-> b.new_urls, dated_file |-> b.dated_file]

\* a faulty variant: the channel deletes the dated file whatever the delivery did
notify_update_always(st, args, outcome) ==
    IF FileExists(st, args.dated_file) THEN Unlink(st, args.dated_file) ELSE st

\* a channel deletes the dated file after its delivery succeeded
notify_update(st, args, outcome) ==
    IF outcome = "delivered" /\ FileExists(st, args.dated_file)
    THEN Unlink(st, args.dated_file)
    ELSE st

\* a faulty variant: no handler around the channel call
propagates_unhandled(outcome) == outcome = "raise"

\* try / except Exception around each channel call: nothing leaves send_to_all
propagates(outcome) == FALSE

\* a faulty variant: the loop ends at the first channel that raises
next_channel_stop(k, n, outcome) == IF outcome = "raise" THEN n + 1 ELSE k + 1

\* for name, notifier in self.notifiers.items(): the loop goes to the next channel
next_channel(k, n, outcome) == k + 1

\* the broadcast has returned to its caller
returned(b) == b.active /\ b.k > Len(notifiers)

----------------------------------------------------------------------------
(* Keyword aggregation: send_keywords_summary *)

\* a URL path is kept as the segments after its leading slash:
\* "/foo" is <<"foo">>, "/foo/" is <<"foo", "">>, "/" is <<"">>, no path is <<>>;
\* " " is a segment of white space only

RECURSIVE rstrip_slash(_)
\* path.rstrip("/"): every trailing slash goes
rstrip_slash(p) ==
    IF p = <<>> THEN <<>>
    ELSE IF p[Len(p)] = "" THEN rstrip_slash(SubSeq(p, 1, Len(p) - 1))
    ELSE p

\* .split("/"): the part before the leading slash is the empty string
path_parts(p) == <<"">> \o rstrip_slash(p)

\* keyword.strip()
strip(k) == IF k = " " THEN "" ELSE k

\* the keyword of a URL: the last part, if it is not empty and not blank
keyword_of(url) ==
    LET parts == path_parts(url.path)
        keyword == parts[Len(parts)]
    IN  IF keyword # "" /\ strip(keyword) # "" THEN Some(keyword) ELSE None

\* a faulty variant: the mapping is keyed by the keyword
summary_key_keyword(url) == Get(keyword_of(url))

\* domain = parsed_url.netloc
summary_key(url) == url.netloc

\* a faulty variant: the keyword takes the place of the domain's list
add_keyword_replace(dk, domain, keyword) ==
    [d \in DOMAIN dk \cup {domain} |-> IF d = domain THEN <<keyword>> ELSE dk[d]]

\* if domain not in domain_keywords: domain_keywords[domain] = []; then append
add_keyword(dk, domain, keyword) ==
    [d \in DOMAIN dk \cup {domain} |->
        IF d # domain THEN dk[d]
        ELSE IF domain \in DOMAIN dk THEN Append(dk[domain], keyword) ELSE <<keyword>>]

RECURSIVE collect_keywords(_)
\* the loop over all_new_urls
collect_keywords(urls) ==
    IF urls = <<>> THEN [d \in {} |-> <<>>]
    ELSE LET dk == collect_keywords(SubSeq(urls, 1, Len(urls) - 1))
             url == urls[Len(urls)]
             k == keyword_of(url)
         IN  IF IsSome(k) THEN add_keyword(dk, summary_key(url), Get(k)) ELSE dk

\* domain_keywords[domain] = list(set(domain_keywords[domain]))
domain_keywords(urls) ==
    LET dk == collect_keywords(urls) IN [d \in DOMAIN dk |-> Range(dk[d])]

\* a faulty variant: the summary is sent whatever the mapping holds
summary_wanted_always(dk) == TRUE

\* if domain_keywords:
summary_wanted(dk) == DOMAIN dk # {}

\* send_keywords_summary(all_new_urls) of apps/email_bot.py: the mapping it builds
\* and the channels it sends the summary on
send_keywords_summary(all_new_urls) ==
    IF all_new_urls = <<>>
    THEN [urls |-> all_new_urls, keywords |-> [d \in {} |-> {}], to |-> <<>>]
    ELSE [urls |-> all_new_urls, keywords |-> domain_keywords(all_new_urls),
          to |-> IF summary_wanted(domain_keywords(all_new_urls)) THEN <<"email">> ELSE <<>>]

----------------------------------------------------------------------------
(* Keyword aggregation of the command surface: send_keywords_summary and   *)
(* force_send_keywords_summary of services/rss/commands.py                 *)

\* a faulty variant: the last part is taken without the test of keyword.strip()
telegram_keyword_of_unstripped(url) ==
    LET parts == path_parts(url.path)
    IN  IF parts[Len(parts)] # "" THEN Some(parts[Len(parts)]) ELSE None

\* lines 355 - 358: the last part of the path, if it is not empty and not blank
telegram_keyword_of(url) ==
    LET parts == path_parts(url.path)
    IN  IF parts[Len(parts)] = "" THEN None
        ELSE IF strip(parts[Len(parts)]) = "" THEN None
        ELSE Some(parts[Len(parts)])

RECURSIVE telegram_collect(_, _)
\* lines 348 - 365: the loop over all_new_urls, from the first URL on
telegram_collect(urls, dk) ==
    IF urls = <<>> THEN dk
    ELSE LET url == Head(urls)
             k == telegram_keyword_of(url)
         IN  telegram_collect(Tail(urls),
                              IF IsSome(k) THEN add_keyword(dk, url.netloc, Get(k)) ELSE dk)

\* lines 368 - 369: every domain's list without duplicates
telegram_domain_keywords(urls) ==
    LET dk == telegram_collect(urls, [d \in {} |-> <<>>])
    IN  [d \in DOMAIN dk |-> Range(dk[d])]

\* line 372: if domain_keywords:
telegram_summary_wanted(dk) == dk # [d \in {} |-> {}]

\* send_keywords_summary(bot, all_new_urls, target_chat) of commands.py: the mapping
\* it builds and whether it sends the summary message
telegram_send_keywords_summary(all_new_urls) ==
    IF all_new_urls = <<>>
    THEN [urls |-> all_new_urls, keywords |-> [d \in {} |-> {}], to |-> <<>>]
    ELSE [urls |-> all_new_urls, keywords |-> telegram_domain_keywords(all_new_urls),
          to |-> IF telegram_summary_wanted(telegram_domain_keywords(all_new_urls))
                 THEN <<"telegram">> ELSE <<>>]

RECURSIVE force_collect(_, _)
\* lines 264 - 288: for every feed, the URLs of sitemap-current.xml that are not in
\* sitemap-latest.xml; a feed whose domain lacks one of the files is skipped
force_collect(fs, st) ==
    IF fs = <<>> THEN <<>>
    ELSE LET d == Domain(fs[Len(fs)])
             init == force_collect(SubSeq(fs, 1, Len(fs) - 1), st)
         IN  IF IsSome(load_current(st, d)) /\ IsSome(load_previous(st, d))
             THEN init \o compare_stored(Get(load_current(st, d)), Get(load_previous(st, d)))
             ELSE init

\* a faulty variant: nothing is said when no new URL was found
force_next_quiet(urls) == IF urls # <<>> THEN "summary" ELSE "none"

\* lines 290 - 298: the summary for a list that is not empty, a note otherwise
force_next(urls) == IF urls # <<>> THEN "summary" ELSE "info"

\* force_send_keywords_summary before anything was done
ForceStart(chat) ==
    [pc |-> "start", chat |-> chat, urls |-> <<>>, keywords |-> [d \in {} |-> {}],
     sent |-> "none"]

\* force_send_keywords_summary up to its await: what it collected and what it says
force_send_keywords_summary(n, fs, st) ==
    IF ~n.chat THEN [n EXCEPT !.pc = "done"]
    ELSE IF fs = <<>> THEN [n EXCEPT !.pc = "done", !.sent = "nofeeds"]
    ELSE IF force_next(force_collect(fs, st)) = "summary"
    THEN [n EXCEPT !.pc = "summary", !.urls = force_collect(fs, st)]
    ELSE [n EXCEPT !.pc = "done", !.urls = force_collect(fs, st),
                   !.sent = force_next(force_collect(fs, st))]

----------------------------------------------------------------------------
(* Scheduler: scheduled_task *)

NoResult == Res(FALSE, "", None, <<>>)

SchedBoot == [pc |-> "boot", feeds |-> <<>>, idx |-> 1, all_new_urls |-> <<>>,
              res |-> NoResult]

\* a faulty variant: the exception ends the loop
BackoffStops == [SchedBoot EXCEPT !.pc = "stopped"]

\* except Exception at the bottom of the loop: the pass is over, sleep(60)
Backoff == [SchedBoot EXCEPT !.pc = "backoff"]

\* the pass is complete: sleep(3600)
Sleeping == [SchedBoot EXCEPT !.pc = "sleep"]

\* the two waits of the loop, in seconds
BackoffSeconds == 60
PassSeconds == 3600

\* how long the loop sleeps before it reads the registry again
wait_seconds(s) ==
    IF s.pc = "backoff" THEN BackoffSeconds
    ELSE IF s.pc = "sleep" THEN PassSeconds
    ELSE 0

\* the for loop goes to the next feed, or leaves for the summary
next_feed(s) ==
    [s EXCEPT !.idx = @ + 1,
              !.res = NoResult,
              !.pc = IF s.idx + 1 > Len(s.feeds) THEN "summary" ELSE "check"]

\* a faulty variant: the list is replaced by the last batch
extend_and_next_replace(s) == next_feed([s EXCEPT !.all_new_urls = s.res.new_urls])

\* all_new_urls.extend(new_urls), then the next iteration
extend_and_next(s) == next_feed([s EXCEPT !.all_new_urls = @ \o s.res.new_urls])

\* a faulty variant: the branch looks at the file only, not at success
sched_handle_file_only(s, st, b) ==
    IF s.res.raised \/ ~IsSome(s.res.dated_file)
    THEN [sched |-> Backoff, bc |-> b]
    ELSE IF FileExists(st, s.res.dated_file)
    THEN [sched |-> [s EXCEPT !.pc = "notify"],
          bc |-> start_broadcast(s.feeds[s.idx], s.res.new_urls, s.res.dated_file)]
    ELSE [sched |-> extend_and_next(s), bc |-> b]

\* lines 288 - 309: what the pass does with the result of add_feed
\* (an exception of the call, or of dated_file.exists() on None, leaves the loop
\* for the handler of the whole pass)
sched_handle(s, st, b) ==
    IF s.res.raised \/ (s.res.success /\ ~IsSome(s.res.dated_file))
    THEN [sched |-> Backoff, bc |-> b]
    ELSE IF s.res.success /\ FileExists(st, s.res.dated_file)
    THEN [sched |-> [s EXCEPT !.pc = "notify"],
          bc |-> start_broadcast(s.feeds[s.idx], s.res.new_urls, s.res.dated_file)]
    ELSE [sched |-> extend_and_next(s), bc |-> b]

\* a faulty variant: the broadcast is started and not awaited
resumes_at_once(b) == b.active

\* await notification_manager.send_to_all(...): the pass goes on when it returned
resumes(b) == returned(b)

----------------------------------------------------------------------------
(* Command surface: rss_command *)

CmdIdle == [pc |-> "idle", url |-> FA, res |-> NoResult, called |-> <<>>]

\* line 172: send_update_notification(context.bot, ...) is the Telegram function of
\* commands.py, called directly: the channels that get the update notification of "add"
cmd_update_channels == <<"telegram">>

\* lines 163 - 208: what "add" does with the result of add_feed
cmd_handle(c, st) ==
    IF c.res.raised THEN CmdIdle
    ELSE IF c.res.success THEN [c EXCEPT !.pc = "notify"]
    ELSE IF c.res.error_msg = MsgAlready /\ IsSome(load_current(st, Domain(c.url)))
    THEN [c EXCEPT !.pc = "again", !.res = NoResult]
    ELSE CmdIdle

\* lines 192 - 198: what "add" does with the result of the second download_sitemap
cmd_handle_again(c) ==
    IF ~c.res.raised /\ IsSome(c.res.dated_file)
    THEN [c EXCEPT !.pc = "notify"]
    ELSE CmdIdle

----------------------------------------------------------------------------
(* Initial states *)

\* registries found on disk at start
InitRegistries == {<<FA, FB>>}

Init ==
    /\ feeds \in InitRegistries
    /\ store = [d \in Domains |-> NoSnapshot]
    /\ today = 1
    /\ hist = [d \in Domains |-> [n |-> 0, docs |-> <<>>]]
    /\ notifiers \in {<<"telegram", "email">>, <<"email">>}
    /\ sched = SchedBoot
    /\ bc = NoBroadcast
    /\ txn = None
    /\ cmd = CmdIdle
    /\ summary = None
    /\ cmp = None
    /\ tg = None
    /\ dest = None
    /\ news = None
    /\ mail = None

----------------------------------------------------------------------------
(* Actions *)

\* no synchronous section is in progress: the event loop may run any coroutine
AtAwait ==
    /\ txn = None
    /\ sched.pc # "handle"
    /\ cmd.pc \notin {"handle", "handle_again", "returned"}

\* the result of a check goes back to the coroutine that called it
Deliver(owner, url, res) ==
    CASE owner = "sched" ->
            /\ sched' = [sched EXCEPT !.pc = "handle", !.res = res]
            /\ cmd' = cmd
      [] owner = "add" ->
            /\ cmd' = [CmdIdle EXCEPT !.pc = "handle", !.url = url, !.res = res]
            /\ sched' = sched
      [] owner = "again" ->
            /\ cmd' = [CmdIdle EXCEPT !.pc = "handle_again", !.url = url, !.res = res]
            /\ sched' = sched

\* one synchronous check, up to the staging of the commit
Check(owner, url, register) ==
    \E fr \in FetchResults(url) :
      \E so \in (IF fr.ok /\ fr.doc.ok /\ ~has_updated_today(store, Domain(url), today)
                 THEN StorageOutcomes ELSE {"ok"}) :
        LET c == monitor_check(store, today, url, fr, so)
        IN  IF c.stage
            THEN /\ txn' = Some([owner |-> owner, url |-> url, doc |-> fr.doc,
                                 new_urls |-> c.res.new_urls, register |-> register])
                 /\ UNCHANGED <<sched, cmd>>
            ELSE /\ txn' = None
                 /\ Deliver(owner, url, c.res)

\* while feeds = get_feeds(): a pass starts from a fresh read of the registry
SchedStart ==
    /\ sched.pc \in {"boot", "sleep", "backoff"}
    /\ AtAwait
    /\ sched' = [SchedBoot EXCEPT !.feeds = feeds,
                                  !.pc = IF feeds = <<>> THEN "summary" ELSE "check"]
    /\ bc' = NoBroadcast
    /\ UNCHANGED <<feeds, store, today, hist, notifiers, txn, cmd, summary, cmp, tg,
                 dest, news, mail>>

\* rss_manager.add_feed(url) of the pass
SchedCheck ==
    /\ sched.pc = "check"
    /\ AtAwait
    /\ Check("sched", sched.feeds[sched.idx], TRUE)
    /\ UNCHANGED <<feeds, store, today, hist, notifiers, bc, summary, cmp, tg,
                 dest, news, mail>>

\* the staged commit is published (or the storage refuses it) and the check returns
CommitPublish ==
    /\ IsSome(txn)
    /\ \E so \in {"ok", "error"} :
        LET t == Get(txn)
            p == monitor_publish(store, feeds, today, t, so)
        IN  /\ store' = p.store
            /\ feeds' = p.feeds
            /\ hist' = IF p.committed
                       THEN [hist EXCEPT ![Domain(t.url)] =
                                [n |-> @.n + 1, docs |-> LastTwo(Append(@.docs, t.doc))]]
                       ELSE hist
            /\ Deliver(t.owner, t.url, p.res)
    /\ txn' = None
    /\ UNCHANGED <<today, notifiers, bc, summary, cmp, tg,
                 dest, news, mail>>

\* the pass looks at what add_feed returned
SchedHandle ==
    /\ sched.pc = "handle"
    /\ sched' = sched_handle(sched, store, bc).sched
    /\ bc' = sched_handle(sched, store, bc).bc
    /\ UNCHANGED <<feeds, store, today, hist, notifiers, txn, cmd, summary, cmp, tg,
                 dest, news, mail>>

\* send_to_all calls the next registered channel
SendToAllStep ==
    /\ bc.active
    /\ bc.k <= Len(notifiers)
    /\ AtAwait
    /\ \E o \in ChannelOutcomes :
        /\ store' = notify_update(store, call_args(bc), o)
        /\ bc' = [bc EXCEPT !.k = next_channel(bc.k, Len(notifiers), o),
                            !.calls = Append(@, [name |-> notifiers[bc.k],
                                                 args |-> call_args(bc),
                                                 outcome |-> o])]
        /\ sched' = IF propagates(o) THEN Backoff ELSE sched
    /\ UNCHANGED <<feeds, today, hist, notifiers, txn, cmd, summary, cmp, tg,
                 dest, news, mail>>

\* send_to_all has returned: the new URLs join the pass's list, next feed
SchedAfterNotify ==
    /\ sched.pc = "notify"
    /\ resumes(bc)
    /\ AtAwait
    /\ sched' = extend_and_next(sched)
    /\ bc' = IF returned(bc) THEN NoBroadcast ELSE bc
    /\ UNCHANGED <<feeds, store, today, hist, notifiers, txn, cmd, summary, cmp, tg,
                 dest, news, mail>>

\* after the loop: sleep(10), then send_keywords_summary(all_new_urls)
SchedSummary ==
    /\ sched.pc = "summary"
    /\ AtAwait
    /\ summary' = Some(send_keywords_summary(sched.all_new_urls))
    /\ sched' = [sched EXCEPT !.pc = "sent"]
    /\ UNCHANGED <<feeds, store, today, hist, notifiers, bc, txn, cmd, cmp, tg,
                 dest, news, mail>>

\* the pass is complete: sleep(3600)
SchedSleep ==
    /\ sched.pc = "sent"
    /\ AtAwait
    /\ sched' = Sleeping
    /\ summary' = None
    /\ UNCHANGED <<feeds, store, today, hist, notifiers, bc, txn, cmd, cmp, tg,
                 dest, news, mail>>

\* /rss add URL
CmdAdd ==
    /\ cmd.pc = "idle"
    /\ "telegram" \in Range(notifiers)
    /\ AtAwait
    /\ \E url \in CmdUrls : Check("add", url, TRUE)
    /\ UNCHANGED <<feeds, store, today, hist, notifiers, bc, summary, cmp, tg,
                 dest, news, mail>>

\* /rss add URL: the handler looks at what add_feed or download_sitemap returned
CmdHandle ==
    /\ cmd.pc \in {"handle", "handle_again"}
    /\ cmd' = IF cmd.pc = "handle" THEN cmd_handle(cmd, store) ELSE cmd_handle_again(cmd)
    /\ UNCHANGED <<feeds, store, today, hist, notifiers, sched, bc, txn, summary, cmp, tg,
                 dest, news, mail>>

\* /rss add URL, already updated today: download_sitemap(url) is called once more
CmdAgain ==
    /\ cmd.pc = "again"
    /\ AtAwait
    /\ Check("again", cmd.url, FALSE)
    /\ UNCHANGED <<feeds, store, today, hist, notifiers, bc, summary, cmp, tg,
                 dest, news, mail>>

\* /rss add URL: send_update_notification(context.bot, url, new_urls, dated_file)
CmdNotify ==
    /\ cmd.pc = "notify"
    /\ AtAwait
    /\ \E o \in {"delivered", "failed"} :
        store' = notify_update(store, [url |-> cmd.url, new_urls |-> cmd.res.new_urls,
                                       dated_file |-> cmd.res.dated_file], o)
    /\ cmd' = [cmd EXCEPT !.pc = "returned", !.called = cmd_update_channels]
    /\ UNCHANGED <<feeds, today, hist, notifiers, sched, bc, txn, summary, cmp, tg,
                 dest, news, mail>>

\* /rss add URL: the handler returns
CmdReturn ==
    /\ cmd.pc = "returned"
    /\ cmd' = CmdIdle
    /\ UNCHANGED <<feeds, store, today, hist, notifiers, sched, bc, txn, summary, cmp, tg,
                 dest, news, mail>>

\* /rss del URL
CmdDel ==
    /\ cmd.pc = "idle"
    /\ "telegram" \in Range(notifiers)
    /\ AtAwait
    /\ \E url \in CmdUrls : feeds' = remove_feed(feeds, url).feeds
    /\ UNCHANGED <<store, today, hist, notifiers, sched, bc, txn, cmd, summary, cmp, tg,
                 dest, news, mail>>

\* midnight
AdvanceDay ==
    /\ today < MaxDay
    /\ AtAwait
    /\ today' = today + 1
    /\ hist' = [d \in Domains |-> [hist[d] EXCEPT !.n = 0]]
    /\ UNCHANGED <<feeds, store, notifiers, sched, bc, txn, cmd, summary, cmp, tg,
                 dest, news, mail>>

\* the process dies and is started again: what is on disk stays
Crash ==
    /\ sched' = SchedBoot
    /\ bc' = NoBroadcast
    /\ txn' = None
    /\ cmd' = CmdIdle
    /\ summary' = None
    /\ UNCHANGED <<feeds, store, today, hist, notifiers, cmp, tg,
                 dest, news, mail>>

Next ==
    \/ SchedStart
    \/ SchedCheck
    \/ CommitPublish
    \/ SchedHandle
    \/ SendToAllStep
    \/ SchedAfterNotify
    \/ SchedSummary
    \/ SchedSleep
    \/ CmdAdd
    \/ CmdHandle
    \/ CmdAgain
    \/ CmdNotify
    \/ CmdReturn
    \/ CmdDel
    \/ AdvanceDay
    \/ Crash

Spec == Init /\ [][Next]_vars

\* the scheduler alone: no user command arrives
NextPass ==
    \/ SchedStart
    \/ SchedCheck
    \/ CommitPublish
    \/ SchedHandle
    \/ SendToAllStep
    \/ SchedAfterNotify
    \/ SchedSummary
    \/ SchedSleep
    \/ AdvanceDay
    \/ Crash

SpecPass == Init /\ [][NextPass]_vars

\* the scheduler alone while the process keeps running
NextRun ==
    \/ SchedStart
    \/ SchedCheck
    \/ CommitPublish
    \/ SchedHandle
    \/ SendToAllStep
    \/ SchedAfterNotify
    \/ SchedSummary
    \/ SchedSleep
    \/ AdvanceDay

\* the event loop resumes the coroutine when what it awaits is over: every sleep
\* ends, every synchronous call returns, every channel call returns or raises
FairRun ==
    /\ WF_vars(SchedStart)
    /\ WF_vars(SchedCheck)
    /\ WF_vars(CommitPublish)
    /\ WF_vars(SchedHandle)
    /\ WF_vars(SendToAllStep)
    /\ WF_vars(SchedAfterNotify)
    /\ WF_vars(SchedSummary)
    /\ WF_vars(SchedSleep)

SpecRun == Init /\ [][NextRun]_vars /\ FairRun

----------------------------------------------------------------------------
(* The comparison of two stored documents, over all small documents *)

SeqsUpTo(S, n) == UNION {[1..k -> S] : k \in 0..n}

\* well-formed documents of up to MaxDocLen entries
DiffDocs == {Doc(l) : l \in SeqsUpTo(PageUrls, MaxDocLen)}

InitDiff ==
    /\ feeds = <<FA, FB>>
    /\ store = [d \in Domains |-> NoSnapshot]
    /\ today = 1
    /\ hist = [d \in Domains |-> [n |-> 0, docs |-> <<>>]]
    /\ notifiers = <<"telegram", "email">>
    /\ sched = SchedBoot
    /\ bc = NoBroadcast
    /\ txn = None
    /\ cmd = CmdIdle
    /\ summary = None
    /\ \E c \in DiffDocs, l \in DiffDocs :
          cmp = Some([pc |-> "read", current |-> c, latest |-> l, out |-> <<>>])
    /\ tg = None
    /\ dest = None
    /\ news = None
    /\ mail = None

\* force_send_keywords_summary, lines 273 - 281, for one feed
ForceCompare ==
    /\ IsSome(cmp)
    /\ Get(cmp).pc = "read"
    /\ cmp' = Some([Get(cmp) EXCEPT !.pc = "done",
                                    !.out = compare_stored(Get(cmp).current, Get(cmp).latest)])
    /\ UNCHANGED <<feeds, store, today, hist, notifiers, sched, bc, txn, cmd, summary, tg,
                 dest, news, mail>>

NextDiff == ForceCompare

SpecDiff == InitDiff /\ [][NextDiff]_vars

----------------------------------------------------------------------------
(* The keyword summary of a pass, over all small URL lists *)

\* URLs with a trailing slash, with the root path, without a path, and with a last
\* segment of white space, next to the plain ones
SummaryUrls ==
    PageUrls \cup {Url("a.com", <<"foo", "">>), Url("a.com", <<"bar", " ">>),
                   Url("b.com", <<"">>), Url("b.com", <<>>),
                   Url("b.com", <<"foo", "bar", "", "">>)}

InitSummary ==
    /\ feeds = <<FA, FB>>
    /\ store = [d \in Domains |-> NoSnapshot]
    /\ today = 1
    /\ hist = [d \in Domains |-> [n |-> 0, docs |-> <<>>]]
    /\ notifiers = <<"telegram", "email">>
    /\ \E l \in SeqsUpTo(SummaryUrls, MaxSumLen) :
          /\ sched = [SchedBoot EXCEPT !.pc = "summary", !.feeds = feeds,
                                       !.idx = Len(feeds) + 1, !.all_new_urls = l]
          /\ news = Some([ForceStart(TRUE) EXCEPT !.pc = "summary", !.urls = l])
    /\ bc = NoBroadcast
    /\ txn = None
    /\ cmd = CmdIdle
    /\ summary = None
    /\ cmp = None
    /\ tg = None
    /\ dest = None
    /\ mail = None

\* send_keywords_summary(bot, all_new_urls, target_chat=chat_id) of commands.py
TgSummary ==
    /\ IsSome(news)
    /\ Get(news).pc = "summary"
    /\ LET r == telegram_send_keywords_summary(Get(news).urls)
       IN  news' = Some([Get(news) EXCEPT !.pc = "done", !.keywords = r.keywords,
                                          !.sent = IF r.to # <<>> THEN "summary" ELSE "none"])
    /\ UNCHANGED <<feeds, store, today, hist, notifiers, sched, bc, txn, cmd, summary, cmp,
                   tg, dest, mail>>

NextSummary ==
    \/ SchedSummary
    \/ TgSummary

SpecSummary == InitSummary /\ [][NextSummary]_vars

----------------------------------------------------------------------------
(* One Telegram update notification, message by message:                   *)
(* TelegramNotifier.send_update_notification (the function of the same     *)
(* name in services/rss/commands.py has the same body)                     *)

\* a message handed to the bot: the header, a URL of the batch or the end message,
\* sent as a document or as text, and whether the send went through
Msg(what, u, as, ok) == [what |-> what, u |-> u, as |-> as, ok |-> ok]

\* a faulty variant: a failed send is logged and the function goes on
after_send_goes_on(next_pc, ok) == next_pc

\* try / except Exception around the whole body: a send that raises ends the call
after_send(next_pc, ok) == IF ok THEN next_pc ELSE "done"

\* if new_urls: the URL loop and the end message follow the header
after_header(t) == IF t.new_urls # <<>> THEN "urls" ELSE "done"

InitTelegram ==
    /\ feeds = <<FA, FB>>
    /\ \E arch \in {{}, {1}} :
          store = [d \in Domains |->
                     IF d = "a.com"
                     THEN [last |-> 1, cur |-> Some(Doc(<<U1, U2>>)), prev |-> None, arch |-> arch]
                     ELSE NoSnapshot]
    /\ today = 1
    /\ hist = [d \in Domains |->
                 IF d = "a.com" THEN [n |-> 1, docs |-> <<Doc(<<U1, U2>>)>>]
                 ELSE [n |-> 0, docs |-> <<>>]]
    /\ notifiers = <<"telegram", "email">>
    /\ sched = SchedBoot
    /\ bc = NoBroadcast
    /\ txn = None
    /\ cmd = CmdIdle
    /\ summary = None
    /\ cmp = None
    /\ dest = None
    /\ news = None
    /\ mail = None
    /\ \E chat \in BOOLEAN, batch \in SeqsUpTo(PageUrls, MaxBatch),
          file \in {None, DatedFile("a.com", 1)} :
          tg = Some([pc |-> "header", chat_id |-> chat, url |-> FA, new_urls |-> batch,
                     dated_file |-> file, i |-> 1, log |-> <<>>])

\* lines 47 - 99: without a target chat nothing is sent; else the header goes out, as
\* a document with caption when the dated file exists (and the file is unlinked after
\* the send, unless the unlink fails), as text otherwise
TgHeader ==
    /\ IsSome(tg)
    /\ Get(tg).pc = "header"
    /\ LET t == Get(tg)
       IN  IF ~t.chat_id
           THEN /\ tg' = Some([t EXCEPT !.pc = "done"])
                /\ store' = store
           ELSE \E ok \in BOOLEAN, unlinked \in BOOLEAN :
                  LET as == IF FileExists(store, t.dated_file) THEN "document" ELSE "text"
                  IN  /\ tg' = Some([t EXCEPT !.pc = after_send(after_header(t), ok),
                                              !.log = Append(@, Msg("header", t.url, as, ok))])
                      /\ store' = IF as = "document" /\ ok /\ unlinked
                                   THEN Unlink(store, t.dated_file)
                                   ELSE store
    /\ UNCHANGED <<feeds, today, hist, notifiers, sched, bc, txn, cmd, summary, cmp,
                 dest, news, mail>>

\* lines 102 - 110: for u in new_urls: send_message(text=u)
TgUrl ==
    /\ IsSome(tg)
    /\ Get(tg).pc = "urls"
    /\ LET t == Get(tg)
       IN  \E ok \in BOOLEAN :
             tg' = Some([t EXCEPT
                     !.pc = after_send(IF t.i = Len(t.new_urls) THEN "end" ELSE "urls", ok),
                     !.i = IF ok THEN @ + 1 ELSE @,
                     !.log = Append(@, Msg("url", t.new_urls[t.i], "text", ok))])
    /\ UNCHANGED <<feeds, store, today, hist, notifiers, sched, bc, txn, cmd, summary, cmp,
                 dest, news, mail>>

\* lines 112 - 120: the end message
TgEnd ==
    /\ IsSome(tg)
    /\ Get(tg).pc = "end"
    /\ LET t == Get(tg)
       IN  \E ok \in BOOLEAN :
             tg' = Some([t EXCEPT !.pc = "done",
                                  !.log = Append(@, Msg("end", t.url, "text", ok))])
    /\ UNCHANGED <<feeds, store, today, hist, notifiers, sched, bc, txn, cmd, summary, cmp,
                 dest, news, mail>>

NextTelegram ==
    \/ TgHeader
    \/ TgUrl
    \/ TgEnd

SpecTelegram == InitTelegram /\ [][NextTelegram]_vars

----------------------------------------------------------------------------
(* Destination of one channel call: TelegramNotifier and EmailNotifier,    *)
(* send_update_notification and send_message                               *)

\* chat_id = target or self.config["target_chat"]
telegram_chat_id(target, target_chat) == IF IsSome(target) THEN target ELSE target_chat

\* email_to = target or self.config["to_email"]
email_to(target, to_email) == IF IsSome(target) THEN target ELSE to_email

\* send_email: msg["To"] = email_config["to_email"]; without it nothing is sent
send_email_to(to_email) == to_email

\* whom the channel addresses (None: it sends nothing)
addressee(channel, target, default) ==
    IF channel = "telegram" THEN telegram_chat_id(target, default)
    ELSE IF ~IsSome(email_to(target, default)) THEN None
    ELSE send_email_to(default)

InitDest ==
    /\ feeds = <<FA, FB>>
    /\ \E arch \in {{}, {1}} :
          store = [d \in Domains |->
                     IF d = "a.com"
                     THEN [last |-> 1, cur |-> Some(Doc(<<U1, U2>>)), prev |-> None, arch |-> arch]
                     ELSE NoSnapshot]
    /\ today = 1
    /\ hist = [d \in Domains |->
                 IF d = "a.com" THEN [n |-> 1, docs |-> <<Doc(<<U1, U2>>)>>]
                 ELSE [n |-> 0, docs |-> <<>>]]
    /\ notifiers = <<"telegram", "email">>
    /\ sched = SchedBoot
    /\ bc = NoBroadcast
    /\ txn = None
    /\ cmd = CmdIdle
    /\ summary = None
    /\ cmp = None
    /\ tg = None
    /\ \E channel \in {"telegram", "email"}, op \in {"send_update_notification", "send_message"},
          target \in {None, Some("override")}, default \in {None, Some("default")},
          file \in {None, DatedFile("a.com", 1)} :
          dest = Some([pc |-> "call", channel |-> channel, op |-> op, target |-> target,
                       default |-> default, dated_file |-> file, to |-> None,
                       delivered |-> FALSE])
    /\ news = None
    /\ mail = None

\* one call of the operation on the channel: the destination is resolved, the
\* notification goes out or fails, a delivered archive is unlinked
ChannelCall ==
    /\ IsSome(dest)
    /\ Get(dest).pc = "call"
    /\ LET c == Get(dest)
           to == addressee(c.channel, c.target, c.default)
       IN  \E ok \in BOOLEAN :
             /\ dest' = Some([c EXCEPT !.pc = "done", !.to = to,
                                       !.delivered = IsSome(to) /\ ok])
             /\ store' = IF IsSome(to) /\ c.op = "send_update_notification"
                          THEN notify_update(store, [url |-> FA, new_urls |-> <<U1>>,
                                                     dated_file |-> c.dated_file],
                                             IF ok THEN "delivered" ELSE "failed")
                          ELSE store
    /\ UNCHANGED <<feeds, today, hist, notifiers, sched, bc, txn, cmd, summary, cmp, tg,
                   news, mail>>

NextDest == ChannelCall

SpecDest == InitDest /\ [][NextDest]_vars

----------------------------------------------------------------------------
(* The force-summary command over stored snapshots *)

\* the URL of a domain's root page
URoot == Url("b.com", <<"">>)

\* a domain's stored state after commits on earlier days: current and previous document
Stored(cur, prev) == [last |-> 1, cur |-> cur, prev |-> prev, arch |-> {}]

StoredA ==
    {NoSnapshot,
     Stored(Some(Doc(<<U1>>)), None),
     Stored(Some(Doc(<<U1, U2>>)), Some(Doc(<<U1>>))),
     Stored(Some(Doc(<<U1>>)), Some(Doc(<<U1, U2>>)))}

StoredB ==
    {NoSnapshot,
     Stored(Some(Doc(<<U3>>)), None),
     Stored(Some(Doc(<<U3, URoot>>)), Some(Doc(<<U3>>))),
     Stored(Some(Doc(<<U3>>)), Some(Doc(<<>>)))}

InitNews ==
    /\ feeds \in {<<>>, <<FB>>, <<FA, FB>>, <<FA, FA2, FB>>}
    /\ \E a \in StoredA, b \in StoredB :
          /\ store = [d \in Domains |-> IF d = "a.com" THEN a ELSE b]
          /\ hist = [d \in Domains |->
                       LET x == IF d = "a.com" THEN a ELSE b
                       IN  [n |-> 0,
                            docs |-> IF ~IsSome(x.cur) THEN <<>>
                                     ELSE IF ~IsSome(x.prev) THEN <<Get(x.cur)>>
                                     ELSE <<Get(x.prev), Get(x.cur)>>]]
    /\ today = 2
    /\ notifiers = <<"telegram", "email">>
    /\ sched = SchedBoot
    /\ bc = NoBroadcast
    /\ txn = None
    /\ cmd = CmdIdle
    /\ summary = None
    /\ cmp = None
    /\ tg = None
    /\ dest = None
    /\ \E chat \in BOOLEAN : news = Some(ForceStart(chat))
    /\ mail = None

\* force_send_keywords_summary(bot, target_chat) up to its await
ForceSummary ==
    /\ IsSome(news)
    /\ Get(news).pc = "start"
    /\ news' = Some(force_send_keywords_summary(Get(news), feeds, store))
    /\ UNCHANGED <<feeds, store, today, hist, notifiers, sched, bc, txn, cmd, summary, cmp,
                   tg, dest, mail>>

NextNews ==
    \/ ForceSummary
    \/ TgSummary

SpecNews == InitNews /\ [][NextNews]_vars

----------------------------------------------------------------------------
(* One call of send_email: the SMTP connection from create_email_client to *)
(* close_email_client                                                      *)

\* what the SMTP server does to create_email_client: refuses the connection, accepts
\* it and fails STARTTLS, accepts it and rejects the login, or lets the client in
CreateOutcomes(use_tls) ==
    {"refused", "login_fails", "ok"} \cup (IF use_tls THEN {"starttls_fails"} ELSE {})

\* the commands create_email_client issues up to the one that raises
create_commands(use_tls, outcome) ==
    IF outcome = "refused" THEN <<"connect">>
    ELSE IF outcome = "starttls_fails" THEN <<"connect", "starttls">>
    ELSE IF use_tls THEN <<"connect", "starttls", "login">>
    ELSE <<"connect", "login">>

\* create_email_client(): the client, or None when anything raised; a client that
\* was connected when STARTTLS or the login raised is dropped without quit or close,
\* and whether its socket is closed by then is up to the garbage collector (dropped)
create_email_client(m, outcome, dropped) ==
    [m EXCEPT !.smtp = create_commands(m.use_tls, outcome),
              !.server = outcome = "ok",
              !.conn = IF outcome = "refused" THEN "none"
                       ELSE IF outcome = "ok" THEN "open"
                       ELSE dropped]

\* close_email_client(server): server.quit() ends the connection, also when the QUIT
\* itself raises, which is logged
close_email_client(m) ==
    IF m.server THEN [m EXCEPT !.smtp = Append(@, "quit"), !.conn = "closed"] ELSE m

\* send_email before anything was done
MailCall(to, from, use_tls, attachment) ==
    [pc |-> "call", to_email |-> to, from_email |-> from, use_tls |-> use_tls,
     attachment |-> attachment, server |-> FALSE, conn |-> "none", smtp |-> <<>>,
     attached |-> FALSE, sent |-> FALSE, result |-> "pending"]

InitMail ==
    /\ feeds = <<FA, FB>>
    /\ store = [d \in Domains |-> NoSnapshot]
    /\ today = 1
    /\ hist = [d \in Domains |-> [n |-> 0, docs |-> <<>>]]
    /\ notifiers = <<"telegram", "email">>
    /\ sched = SchedBoot
    /\ bc = NoBroadcast
    /\ txn = None
    /\ cmd = CmdIdle
    /\ summary = None
    /\ cmp = None
    /\ tg = None
    /\ dest = None
    /\ news = None
    /\ \E to \in {None, Some("default")}, from \in BOOLEAN, use_tls \in BOOLEAN,
          attachment \in {"none", "file", "missing", "not a Path"} :
          mail = Some(MailCall(to, from, use_tls, attachment))

\* lines 42 - 44: without a configured recipient send_email returns False
MailRecipient ==
    /\ IsSome(mail)
    /\ Get(mail).pc = "call"
    /\ mail' = Some(IF IsSome(Get(mail).to_email)
                     THEN [Get(mail) EXCEPT !.pc = "create"]
                     ELSE [Get(mail) EXCEPT !.pc = "done", !.result = "False"])
    /\ UNCHANGED <<feeds, store, today, hist, notifiers, sched, bc, txn, cmd, summary, cmp,
                   tg, dest, news>>

\* lines 46 - 48: server = create_email_client(); without a client send_email
\* returns False
MailCreate ==
    /\ IsSome(mail)
    /\ Get(mail).pc = "create"
    /\ \E outcome \in CreateOutcomes(Get(mail).use_tls), dropped \in {"open", "closed"} :
          LET m == create_email_client(Get(mail), outcome, dropped)
          IN  mail' = Some(IF m.server THEN [m EXCEPT !.pc = "send"]
                           ELSE [m EXCEPT !.pc = "done", !.result = "False"])
    /\ UNCHANGED <<feeds, store, today, hist, notifiers, sched, bc, txn, cmd, summary, cmp,
                   tg, dest, news>>

\* lines 50 - 73: the message is built and handed to the server, or something raises
MailSend ==
    /\ IsSome(mail)
    /\ Get(mail).pc = "send"
    /\ \E ok \in BOOLEAN :
          mail' = Some([Get(mail) EXCEPT
                          !.pc = "close",
                          !.attached = ok /\ Get(mail).attachment = "file",
                          !.smtp = Append(@, "send_message"),
                          !.sent = ok,
                          !.result = IF ok THEN "True" ELSE "False"])
    /\ UNCHANGED <<feeds, store, today, hist, notifiers, sched, bc, txn, cmd, summary, cmp,
                   tg, dest, news>>

\* lines 74 - 75: finally close_email_client(server), then send_email returns
MailClose ==
    /\ IsSome(mail)
    /\ Get(mail).pc = "close"
    /\ mail' = Some([close_email_client(Get(mail)) EXCEPT !.pc = "done"])
    /\ UNCHANGED <<feeds, store, today, hist, notifiers, sched, bc, txn, cmd, summary, cmp,
                   tg, dest, news>>

NextMail ==
    \/ MailRecipient
    \/ MailCreate
    \/ MailSend
    \/ MailClose

SpecMail == InitMail /\ [][NextMail]_vars

----------------------------------------------------------------------------
(* The first pass of a day over a registry with two feeds of one domain *)

InitFirstPass ==
    /\ feeds = <<FA, FA2, FB>>
    /\ store = [d \in Domains |-> NoSnapshot]
    /\ today = 1
    /\ hist = [d \in Domains |-> [n |-> 0, docs |-> <<>>]]
    /\ notifiers \in {<<"telegram", "email">>, <<"email">>}
    /\ sched = SchedBoot
    /\ bc = NoBroadcast
    /\ txn = None
    /\ cmd = CmdIdle
    /\ summary = None
    /\ cmp = None
    /\ tg = None
    /\ dest = None
    /\ news = None
    /\ mail = None

\* the loop is entered for the first time
FirstPassStart ==
    /\ sched.pc = "boot"
    /\ SchedStart

NextFirstPass ==
    \/ FirstPassStart
    \/ SchedCheck
    \/ CommitPublish
    \/ SchedHandle
    \/ SendToAllStep
    \/ SchedAfterNotify
    \/ SchedSummary
    \/ SchedSleep

SpecFirstPass == InitFirstPass /\ [][NextFirstPass]_vars

----------------------------------------------------------------------------
(* Properties *)

NoDup(s) == \A i, j \in 1..Len(s) : i # j => s[i] # s[j]
FirstIndex(s, x) == CHOOSE i \in 1..Len(s) : s[i] = x /\ \A j \in 1..(i - 1) : s[j] # x

\* C1: fan-out isolation. While send_to_all runs, the channels called so far are the
\* registered channels in order, whatever the earlier calls did, each with the URL,
\* the batch and the archive handle of the broadcast; when it has returned, every
\* registered channel has been called.
C1_FanOutIsolation ==
    bc.active =>
        /\ Len(bc.calls) = bc.k - 1
        /\ \A j \in 1..Len(bc.calls) :
              /\ bc.calls[j].name = notifiers[j]
              /\ bc.calls[j].args =
                    [url |-> bc.url, new_urls |-> bc.new_urls, dated_file |-> bc.dated_file]
        /\ returned(bc) => Len(bc.calls) = Len(notifiers)

\* the first channel raised and the second one was called all the same
C1_Witness ==
    /\ returned(bc)
    /\ Len(bc.calls) = 2
    /\ bc.calls[1].outcome = "raise"
    /\ bc.calls[2].outcome = "delivered"
    /\ bc.new_urls # <<>>

\* C2: at most one successful commit per domain and calendar day, and
\* has_updated_today(domain) holds exactly when a commit of that day has happened.
C2_OncePerDay ==
    \A d \in Domains :
        /\ hist[d].n <= 1
        /\ has_updated_today(store, d, today) <=> hist[d].n = 1

\* on the second day, after a commit of a.com on each day, a user's add of a feed of
\* a.com ran into the commit of that day
C2_Witness ==
    /\ today = 2
    /\ hist["a.com"].n = 1
    /\ Len(hist["a.com"].docs) = 2
    /\ cmd.pc = "again"

\* C3: the comparison returns exactly the URLs of the new document that are not in
\* the old one, each once, in the order of their first appearance in the new
\* document; with an empty old document and a duplicate-free new one it returns the
\* new document.
C3_Diff ==
    (IsSome(cmp) /\ Get(cmp).pc = "done") =>
        LET new == Get(cmp).current.locs
            old == Get(cmp).latest.locs
            out == Get(cmp).out
        IN  /\ Range(out) = Range(new) \ Range(old)
            /\ NoDup(out)
            /\ \A i, j \in 1..Len(out) :
                  i < j => FirstIndex(new, out[i]) < FirstIndex(new, out[j])
            /\ (old = <<>> /\ NoDup(new)) => out = new

\* a new document with a duplicate, compared with an old one that holds one of its URLs
C3_Witness ==
    /\ IsSome(cmp)
    /\ Get(cmp).pc = "done"
    /\ Get(cmp).current.locs = <<U3, U2, U3>>
    /\ Get(cmp).latest.locs = <<U2>>
    /\ Get(cmp).out = <<U3>>

\* C4: once a domain has been committed today, a further commit of any content is
\* refused as AlreadyUpdatedToday and returns the store as it is, and the stored
\* current and previous snapshots are the ones the commit of the day wrote.
C4_CommitIdempotent ==
    \A d \in Domains :
        hist[d].n >= 1 =>
            /\ \A f \in {u \in FeedUrls : Domain(u) = d} :
                 \A c \in FetchDocs(f) :
                    /\ ~commit(store, d, c, today).ok
                    /\ commit(store, d, c, today).store = store
                    /\ c.ok => monitor_check(store, today, f, [ok |-> TRUE, doc |-> c], "ok").res
                                  = Res(FALSE, MsgAlready, None, <<>>)
            /\ store[d].cur = Some(hist[d].docs[Len(hist[d].docs)])
            /\ store[d].prev = IF Len(hist[d].docs) = 2 THEN Some(hist[d].docs[1]) ELSE None

\* the pass checked a feed of a domain a second time on the same day
C4_Witness ==
    /\ sched.pc = "handle"
    /\ sched.res.error_msg = MsgAlready
    /\ hist[Domain(sched.feeds[sched.idx])].n = 1
    /\ Len(hist[Domain(sched.feeds[sched.idx])].docs) = 2

\* C5: whatever the check of a feed returns or raises, the pass goes on to the
\* feeds after it (the pass does not end at a feed that is not its last one).
C5_Containment ==
    [][(sched.pc = "handle" /\ sched.idx < Len(sched.feeds))
          => sched'.pc \in {"check", "notify", "boot"}]_vars

\* C6: a check of the pass that ends as already updated does not abort the pass,
\* starts no broadcast and adds no URL to the pass's list.
C6_AlreadyUpdated ==
    [][(sched.pc = "handle" /\ sched.res.error_msg = MsgAlready /\ sched'.pc # "boot")
          => /\ sched'.pc \in {"check", "summary"}
             /\ sched'.idx = sched.idx + 1
             /\ sched'.all_new_urls = sched.all_new_urls
             /\ bc' = bc]_vars

\* the second feed of a pass is found already updated, after the first one brought URLs
C6_Witness ==
    /\ sched.pc = "handle"
    /\ sched.res.error_msg = MsgAlready
    /\ sched.idx = 2
    /\ sched.all_new_urls # <<>>

\* C7: when the pass computes and sends the summary, no broadcast of the pass is
\* still calling channels.
C7_SummaryAfterNotifications ==
    (sched.pc \in {"summary", "sent"}) => ~(bc.active /\ bc.k <= Len(notifiers))

\* a summary was sent for a pass that had broadcast new URLs
C7_Witness ==
    /\ sched.pc = "sent"
    /\ IsSome(summary)
    /\ Get(summary).urls # <<>>

\* C8: while the pass waits for send_to_all it stays in the call or goes on with the
\* next feed or the summary, whatever the channels do (a restart of the process aside).
C8_DeliveryFailureContained ==
    [][sched.pc = "notify" => sched'.pc \in {"notify", "check", "summary", "boot"}]_vars

\* every channel failed or raised, send_to_all has returned, and feeds remain
C8_Witness ==
    /\ sched.pc = "notify"
    /\ returned(bc)
    /\ Len(bc.calls) = 2
    /\ bc.calls[1].outcome = "raise"
    /\ bc.calls[2].outcome = "failed"
    /\ sched.idx < Len(sched.feeds)

\* the state of a domain that a crash must leave whole
Triple(s) == [prev |-> s.prev, cur |-> s.cur, last |-> s.last]

\* C9: a step that commits content c for a domain leaves previous = the old current,
\* current = c, an archive of today and last-update = today; and in every state the
\* stored current and previous are the last and the last but one committed contents.
C9_Rotation ==
    /\ [][\A d \in Domains :
            hist'[d].n = hist[d].n + 1 =>
                /\ IsSome(txn) /\ Domain(Get(txn).url) = d
                /\ store'[d].prev = store[d].cur
                /\ store'[d].cur = Some(Get(txn).doc)
                /\ store'[d].last = today
                /\ today \in store'[d].arch]_vars
    /\ [](\A d \in Domains :
            /\ store[d].cur = IF hist[d].docs = <<>> THEN None
                              ELSE Some(hist[d].docs[Len(hist[d].docs)])
            /\ store[d].prev = IF Len(hist[d].docs) = 2 THEN Some(hist[d].docs[1]) ELSE None)

\* a.com was committed on two days with different contents
C9_Witness ==
    /\ store["a.com"].last = 2
    /\ store["a.com"].prev = Some(Doc(<<U1, U2, U1>>))
    /\ store["a.com"].cur = Some(Doc(<<U2>>))
    /\ 2 \in store["a.com"].arch

\* C10: every step leaves (previous, current, last-update) of every domain as it was
\* or rotates it completely; a commit that ends without success (a storage error, a
\* crash) leaves it as it was.
C10_CommitAtomic ==
    [][\A d \in Domains :
          /\ \/ Triple(store'[d]) = Triple(store[d])
             \/ /\ IsSome(txn) /\ Domain(Get(txn).url) = d
                /\ Triple(store'[d]) =
                      [prev |-> store[d].cur, cur |-> Some(Get(txn).doc), last |-> today]
          /\ (IsSome(txn) /\ hist'[d].n = hist[d].n) => Triple(store'[d]) = Triple(store[d])]_vars

\* the storage refused to publish a commit of a domain that had snapshots already
C10_Witness ==
    /\ sched.pc = "handle"
    /\ sched.res.error_msg = "StorageError(publish)"
    /\ store[Domain(sched.feeds[sched.idx])].last = 1
    /\ today = 2

\* the check of feed f by the pass has just failed at fetch or at parse
FailedCheck(f) ==
    /\ sched.pc = "handle"
    /\ sched.feeds[sched.idx] = f
    /\ sched.res.error_msg \in {"FetchError", "ParseError"}

\* a check of the pass that fails at fetch or at parse changes neither the store nor
\* the registry and starts no broadcast, and the pass goes on without a broadcast
C11_NothingMutated ==
    /\ [][(sched.pc = "check" /\ sched'.pc = "handle"
              /\ sched'.res.error_msg \in {"FetchError", "ParseError"})
            => (store' = store /\ feeds' = feeds /\ bc' = bc /\ txn' = None)]_vars
    /\ [][(sched.pc = "handle" /\ sched.res.error_msg \in {"FetchError", "ParseError"})
            => (store' = store /\ feeds' = feeds /\ bc' = bc /\ ~bc'.active
                /\ sched'.pc \in {"check", "summary", "boot"})]_vars

\* C11: a check of the pass that fails at fetch or at parse changes nothing in the
\* store, starts no broadcast for the feed, and the feed is checked again by a later pass.
C11_FailureFrame ==
    /\ C11_NothingMutated
    /\ \A f \in FeedUrls :
          FailedCheck(f) ~> (sched.pc = "check" /\ sched.feeds[sched.idx] = f)

\* C12: a step deletes a dated archive only when a channel has just delivered it, and
\* it deletes the archive of that notification only; a channel call that failed or
\* raised leaves every archive in place.
C12_DeleteAfterDelivery ==
    /\ [][(\E d \in Domains : store'[d].arch # store[d].arch /\ store'[d].arch \subseteq store[d].arch)
            => /\ bc.active
               /\ Len(bc'.calls) = Len(bc.calls) + 1
               /\ bc'.calls[Len(bc'.calls)].outcome = "delivered"
               /\ FileExists(store, bc.dated_file)
               /\ store' = Unlink(store, bc.dated_file)]_vars
    /\ [][(Len(bc'.calls) = Len(bc.calls) + 1
              /\ bc'.calls[Len(bc'.calls)].outcome \in {"failed", "raise"})
            => store' = store]_vars

\* the first channel failed and left the archive, the second one delivered and deleted it
C12_Witness ==
    /\ bc.active
    /\ Len(bc.calls) = 2
    /\ bc.calls[1].outcome = "failed"
    /\ bc.calls[2].outcome = "delivered"
    /\ IsSome(bc.dated_file)
    /\ ~FileExists(store, bc.dated_file)

\* the path of u without its trailing slashes
Stripped(u) ==
    LET p == u.path
        n == IF \E i \in 1..Len(p) : p[i] # ""
             THEN CHOOSE i \in 1..Len(p) : p[i] # "" /\ \A j \in (i + 1)..Len(p) : p[j] = ""
             ELSE 0
    IN  SubSeq(p, 1, n)
\* the final segment of u, trailing slashes stripped ("" when there is none)
FinalSegment(u) == IF Stripped(u) = <<>> THEN "" ELSE Stripped(u)[Len(Stripped(u))]
\* u has a final segment that is not empty / that is neither empty nor white space
HasSegment(u) == FinalSegment(u) # ""
HasKeyword(u) == FinalSegment(u) \notin {"", " "}

\* the statement as written: the mapping has as many keys as the URLs have distinct domains
C13_KeysPerDomain ==
    IsSome(summary) =>
        Cardinality(DOMAIN Get(summary).keywords)
            = Cardinality({u.netloc : u \in Range(Get(summary).urls)})

\* C13: the keys of the mapping are exactly the domains of the URLs that yield a
\* keyword, so the mapping has as many keys as there are distinct domains among them.
C13_KeysPerKeywordDomain ==
    IsSome(summary) =>
        LET urls == Get(summary).urls
            with == {u \in Range(urls) : HasKeyword(u)}
        IN  (urls # <<>>) =>
              /\ DOMAIN Get(summary).keywords = {u.netloc : u \in with}
              /\ Cardinality(DOMAIN Get(summary).keywords) = Cardinality({u.netloc : u \in with})

\* two domains among the URLs, one of them with a root path only: one key
C13_Witness ==
    /\ IsSome(summary)
    /\ Get(summary).urls = <<U1, Url("b.com", <<"">>), U2>>
    /\ DOMAIN Get(summary).keywords = {"a.com"}

C15_NoEmptySummary ==
    IsSome(summary) =>
        ((\A u \in Range(Get(summary).urls) : ~HasKeyword(u)) => Get(summary).to = <<>>)

\* a list that is not empty and yields no keyword
C15_Witness ==
    /\ IsSome(summary)
    /\ Get(summary).urls = <<Url("b.com", <<"">>), Url("a.com", <<"bar", " ">>)>>
    /\ Get(summary).keywords = [d \in {} |-> {}]
    /\ Get(summary).to = <<>>

\* s without its i-th entry
Without(s, i) == SubSeq(s, 1, i - 1) \o SubSeq(s, i + 1, Len(s))

\* C16: the registry never holds a URL twice; on every registry reached, add of a
\* URL that is present changes nothing, remove of an absent URL fails with NotFound
\* and changes nothing, remove of a present URL takes out exactly its entry; and
\* the registry changes by these two operations only.
C16_RegistryNoDuplicates ==
    /\ [](/\ NoDup(feeds)
          /\ \A u \in FeedUrls :
                IF u \in Range(feeds)
                THEN /\ registry_add(feeds, u) = feeds
                     /\ remove_feed(feeds, u).success
                     /\ \E i \in 1..Len(feeds) :
                           feeds[i] = u /\ remove_feed(feeds, u).feeds = Without(feeds, i)
                ELSE /\ registry_add(feeds, u) = Append(feeds, u)
                     /\ remove_feed(feeds, u) =
                           [success |-> FALSE, error_msg |-> "NotFound", feeds |-> feeds])
    /\ [][feeds' # feeds =>
            \E u \in FeedUrls : \/ (u \notin Range(feeds) /\ feeds' = Append(feeds, u))
                                 \/ \E i \in 1..Len(feeds) :
                                       feeds[i] = u /\ feeds' = Without(feeds, i)]_vars

\* a user's add of a feed that was in the registry already has returned, the list is
\* as it was
C16_Witness ==
    /\ feeds = <<FA, FB, FA2>>
    /\ cmd.pc = "notify"
    /\ cmd.url = FA2
    /\ cmd.res.error_msg = MsgExisting

\* a pass has just started: the registry is read, no feed is checked yet
PassStarted == sched.pc \in {"check", "summary"} /\ sched.idx = 1 /\ sched.all_new_urls = <<>>

\* C17: an unhandled failure ends the pass in the short wait, a completed pass ends in
\* the long one; after either wait a whole new pass starts from a fresh read of the
\* registry; and a new pass always starts again.
C17_BackoffAndRetry ==
    /\ [][(sched.pc = "handle" /\ sched.res.raised) => sched'.pc = "backoff"]_vars
    /\ [][(sched.pc = "sent" /\ sched' # sched) => sched'.pc = "sleep"]_vars
    /\ [](/\ sched.pc = "backoff" => wait_seconds(sched) = BackoffSeconds
          /\ sched.pc = "sleep" => wait_seconds(sched) = PassSeconds
          /\ BackoffSeconds < PassSeconds)
    /\ [][(sched.pc \in {"backoff", "sleep"} /\ sched' # sched)
            => (PassStarted' /\ sched'.feeds = feeds)]_vars
    /\ (sched.pc \in {"backoff", "sleep"}) ~> PassStarted
    /\ []<>PassStarted

\* a pass that came after a completed one ended with an unhandled failure
C17_Witness ==
    /\ sched = Backoff
    /\ store["b.com"].last = today
    /\ wait_seconds(sched) = 60

\* C18: a successful check with an archive handle hands one update notification with
\* the feed URL, the batch and the handle to the fan-out, so that every registered
\* channel is called with it: in the pass, and in the add command.
C18_UpdateThroughFanOut ==
    /\ [][(sched.pc = "handle" /\ sched.res.success /\ IsSome(sched.res.dated_file)
              /\ sched'.pc # "boot")
            => /\ sched'.pc = "notify"
               /\ bc' = start_broadcast(sched.feeds[sched.idx], sched.res.new_urls,
                                         sched.res.dated_file)]_vars
    /\ [][(sched.pc = "notify" /\ sched'.pc \in {"check", "summary"})
            => [j \in 1..Len(bc.calls) |-> bc.calls[j].name] = notifiers]_vars
    /\ [][(cmd.pc = "notify" /\ cmd.res.success /\ cmd'.pc = "returned")
            => cmd'.called = notifiers]_vars

\* C19: the summary of a pass, when it is not empty, is sent on every registered channel.
C19_SummaryThroughFanOut ==
    (IsSome(summary) /\ DOMAIN Get(summary).keywords # {}) => Get(summary).to = notifiers

\* the messages of one notification, in the order C20 gives
Expected(t) ==
    <<[what |-> "header", u |-> t.url]>>
    \o [j \in 1..Len(t.new_urls) |-> [what |-> "url", u |-> t.new_urls[j]]]
    \o (IF t.new_urls # <<>> THEN <<[what |-> "end", u |-> t.url]>> ELSE <<>>)

\* C20: the messages sent for one Telegram notification are a prefix of: header, the
\* URLs of the batch in order (each position once), end message (none for an empty
\* batch); the header is a document exactly when the dated file exists; a failed
\* send is the last one; a call in which no send failed has sent them all, which is
\* the header alone when the batch is empty.
C20_TelegramOrder ==
    /\ [](IsSome(tg) =>
            LET t == Get(tg)
                e == Expected(t)
            IN  /\ Len(t.log) <= Len(e)
                /\ \A j \in 1..Len(t.log) :
                      /\ [what |-> t.log[j].what, u |-> t.log[j].u] = e[j]
                      /\ j < Len(t.log) => t.log[j].ok
                /\ (\E j \in 1..Len(t.log) : t.log[j].what = "end")
                      => \A k \in 1..Len(t.new_urls) :
                            t.log[k + 1].ok /\ t.log[k + 1].u = t.new_urls[k]
                /\ (t.pc = "done" /\ t.chat_id /\ \A j \in 1..Len(t.log) : t.log[j].ok)
                      => Len(t.log) = Len(e)
                /\ (t.pc = "done" /\ t.chat_id /\ t.new_urls = <<>>) => Len(t.log) = 1
                /\ (t.pc # "done") => \A j \in 1..Len(t.log) : t.log[j].ok)
    /\ [][(IsSome(tg) /\ Get(tg).pc = "header" /\ Get(tg').log # <<>>)
            => (Get(tg').log[1].as = "document" <=> FileExists(store, Get(tg).dated_file))]_vars

\* a batch of two URLs went out whole after a document header, and the file is gone
C20_Witness ==
    /\ IsSome(tg)
    /\ Get(tg).pc = "done"
    /\ Get(tg).new_urls = <<U2, U3>>
    /\ Len(Get(tg).log) = 4
    /\ Get(tg).log[1].as = "document"
    /\ Get(tg).log[3].u = U3
    /\ Get(tg).log[4].ok
    /\ ~FileExists(store, Get(tg).dated_file)

\* C21: every channel call is addressed to the override when one is given and to the
\* configured default otherwise; with neither, nothing is sent and no archive goes.
C21_Destination ==
    /\ [][(IsSome(dest) /\ Get(dest).pc = "call" /\ Get(dest').pc = "done")
            => LET c == Get(dest)
                   want == IF IsSome(c.target) THEN c.target ELSE c.default
               IN  /\ Get(dest').to = want
                   /\ ~IsSome(want) => (store' = store /\ ~Get(dest').delivered)]_vars

\* C23: within a broadcast that started with its archive file present, the file is
\* still there whenever a registered channel is about to be invoked.
C23_ArchiveForEveryChannel ==
    (bc.active /\ bc.k <= Len(notifiers)) => FileExists(store, bc.dated_file)

\* C24: no step of the scheduler changes the registry, so a feed removed by a command
\* during a pass stays removed until a user adds it again.
C24_SchedulerKeepsRegistry ==
    [][(IsSome(txn) /\ Get(txn).owner = "sched" /\ sched'.pc = "handle")
        => feeds' = feeds]_vars

\* the check of the pass returned, and neither the fetch, the parse nor the storage
\* failed
FetchedAndParsed(r) ==
    /\ ~r.raised
    /\ r.error_msg \notin {"FetchError", "ParseError", "StorageError(stage)",
                           "StorageError(publish)"}

\* what the pass commits it also notifies: the fan-out is started for the feed
CommittedIsNotified ==
    [][(sched.pc = "handle" /\ sched.res.success /\ IsSome(sched.res.dated_file))
        => (bc'.active /\ bc'.url = sched.feeds[sched.idx])]_vars

\* C25: in the first pass of a day, every feed whose fetch and parse succeed is diffed
\* and committed, and then notified, also when feeds share a domain.
C25_FirstPassCommitsAll ==
    /\ [][(sched.pc = "check" /\ sched'.pc = "handle" /\ FetchedAndParsed(sched'.res))
            => (sched'.res.success /\ IsSome(sched'.res.dated_file))]_vars
    /\ CommittedIsNotified

\* the pass is between the reading of the registry and the summary
InPass(pc) == pc \in {"check", "handle", "notify", "summary"}

\* C26: the list handed to the keyword summary is empty when the pass starts, grows by
\* exactly the batch of each feed check in turn, holds the batch of every notified feed
\* and is handed over as it is.
C26_SummaryInput ==
    /\ [][(~InPass(sched.pc) /\ InPass(sched'.pc)) => sched'.all_new_urls = <<>>]_vars
    /\ [][(InPass(sched.pc) /\ InPass(sched'.pc))
            => sched'.all_new_urls =
                 IF sched.pc \in {"handle", "notify"} /\ sched'.pc \in {"check", "summary"}
                 THEN sched.all_new_urls \o sched.res.new_urls
                 ELSE sched.all_new_urls]_vars
    /\ [](sched.pc = "notify" => bc.new_urls = sched.res.new_urls)
    /\ [][(sched.pc = "summary" /\ sched'.pc = "sent")
            => (IsSome(summary') /\ Get(summary').urls = sched.all_new_urls)]_vars

\* a summary whose input holds the batches of two feeds, after an earlier pass
C26_Witness ==
    /\ sched.pc = "sent"
    /\ IsSome(summary)
    /\ \E i, j \in 1..Len(Get(summary).urls) :
          /\ i < j
          /\ Get(summary).urls[i].netloc = "a.com"
          /\ Get(summary).urls[j].netloc = "b.com"
    /\ today = 2

\* the URLs the stored documents of feed f show as new; none when a document is missing
NewOf(f) ==
    LET c == store[Domain(f)].cur
        l == store[Domain(f)].prev
    IN  IF IsSome(c) /\ IsSome(l)
        THEN {u \in Range(Get(c).locs) : u \notin Range(Get(l).locs)}
        ELSE {}

\* urls holds every URL once for every registered feed that shows it as new
CollectedPerFeed(urls) ==
    \A u \in SummaryUrls \cup {URoot} :
        Cardinality({i \in 1..Len(urls) : urls[i] = u})
            = Cardinality({i \in 1..Len(feeds) : u \in NewOf(feeds[i])})

\* the command leaves the registry and the snapshots alone
ForceSummaryFrame ==
    [][(IsSome(news) /\ news' # news) => (feeds' = feeds /\ store' = store)]_vars

C27_SameAggregation ==
    (IsSome(summary) /\ IsSome(news) /\ Get(news).pc = "done"
        /\ Get(news).urls = Get(summary).urls)
    => /\ Get(news).keywords = Get(summary).keywords
       /\ Get(news).sent = "summary" <=> Get(summary).to # <<>>

\* both summaries built from a list with a blank last segment and two domains
C27_Witness ==
    /\ IsSome(summary)
    /\ IsSome(news)
    /\ Get(news).pc = "done"
    /\ Get(news).urls = Get(summary).urls
    /\ Get(news).sent = "summary"
    /\ Cardinality(DOMAIN Get(news).keywords) = 2
    /\ \E u \in Range(Get(news).urls) : ~HasKeyword(u)

\* C28: when send_email has returned no SMTP connection it opened is still open, and
\* without a recipient or without a client it has returned failure and sent nothing.
C28_ConnectionClosed ==
    (IsSome(mail) /\ Get(mail).pc = "done")
    => /\ Get(mail).conn # "open"
       /\ (~IsSome(Get(mail).to_email) \/ ~Get(mail).server)
            => (Get(mail).result = "False" /\ ~Get(mail).sent)

\* the part of C28 about the calls that got a client
ClosedAfterSend ==
    (IsSome(mail) /\ Get(mail).pc = "done" /\ Get(mail).server) => Get(mail).conn = "closed"

====
